---- MODULE Spec2Model ----
(***************************************************************************)
(* Booking lifecycle of Book_Catalog_REST: the booking CRUD of             *)
(* app/crud/crud_booking.py behind the endpoints of                        *)
(* app/api/v1/endpoints/booking.py, and the periodic expiry task of        *)
(* app/tasks/booking_tasks.py.                                             *)
(*                                                                         *)
(* Instants are whole hours counted from the instant the system starts;    *)
(* the clock is datetime.utcnow() in the same unit.  The tables start as   *)
(* init_db creates them, with the books and users present and no booking;  *)
(* test_script/script_random_data.py is not run.  Commits succeed, except  *)
(* in the specification SpecFail.                                          *)
(***************************************************************************)
EXTENDS Integers, FiniteSets, Sequences, TLC

VARIABLES
    booking,   \* the booking table: stored id -> row
    next_id,   \* the next value of the primary-key sequence of the table
    clock,     \* datetime.utcnow()
    call,      \* the request being answered: operation, booking id, payload, outcome
    req        \* requests in flight (used by the interleaved specification only)

vars == <<booking, next_id, clock, call, req>>

(* ----------------------------- bounds ---------------------------------- *)
MaxId == 2        \* ids the sequence hands out
MaxTime == 4      \* latest instant a payload names
MaxClock == 1     \* latest value of the clock

(* --------------------------- program data ------------------------------ *)
Offset == 3                     \* timedelta(hours=3)
Books == {1, 2}                 \* rows of the book table
Users == {1}                    \* rows of the user table
BookIds == Books \cup {3}       \* book_id values a payload may carry
UserIds == Users \cup {2}       \* user_id values a payload may carry
Ids == 1..MaxId
Times == 1..MaxTime
Procs == {1, 2}

\* BookingBase: book_id, user_id, start_time and end_time are required,
\* active is optional and defaults to True; active_set tells whether the
\* caller supplied it (pydantic's fields-set).  A null active is not among
\* the inputs.
Payloads ==
    { p \in [book_id : BookIds, user_id : UserIds, start_time : Times,
             end_time : Times, active : BOOLEAN, active_set : BOOLEAN] :
        (~p.active_set) => p.active }

NoId == 0
NoPayload ==
    [book_id |-> 0, user_id |-> 0, start_time |-> 0, end_time |-> 0,
     active |-> TRUE, active_set |-> FALSE]
NoRow ==
    [book_id |-> 0, user_id |-> 0, start_time |-> 0, end_time |-> 0, active |-> FALSE]
NoCall ==
    [pc |-> "idle", op |-> "none", id |-> NoId, payload |-> NoPayload,
     found |-> NoRow, before |-> << >>, result |-> "none", status |-> 0]
\* the answer of an endpoint, as the caller receives it, with the request
\* (id, payload), the row the request loaded (found, as it was loaded) and the
\* table as it was when the answering step began (before)
Answer(op, id, p, found, r, status) ==
    [pc |-> "done", op |-> op, id |-> id, payload |-> p, found |-> found,
     before |-> booking, result |-> r, status |-> status]

(* ------------------------- outcomes of the CRUD ------------------------ *)
Ok == "ok"
Conflict == "None: overlaps an active booking"
NotFound == "None: no such booking"
ErrStartTime == "Validation error: Start time must be before end time"
ErrBook == "Validation error: Book with given ID does not exist"
ErrUser == "Validation error: User with given ID does not exist"
ValidationErrors == {ErrStartTime, ErrBook, ErrUser}
\* except SQLAlchemyError: raise Exception("Database error occurred: ...")
CommitFailed == "Database error occurred: commit"
RefreshFailed == "Database error occurred: refresh"
StorageErrors == {CommitFailed, RefreshFailed}

(* ------------------------------ storage -------------------------------- *)
\* variant: a new booking is stored active whatever the payload says
Row_AlwaysActive(p) ==
    [book_id |-> p.book_id, user_id |-> p.user_id, start_time |-> p.start_time,
     end_time |-> p.end_time, active |-> TRUE]

\* Booking(book_id=..., user_id=..., start_time=..., end_time=..., active=...)
Row(p) ==
    [book_id |-> p.book_id, user_id |-> p.user_id, start_time |-> p.start_time,
     end_time |-> p.end_time, active |-> p.active]

\* db.add(db_obj); db.commit(): the row gets the next id of the sequence
Insert(store, id, row) ==
    [i \in (DOMAIN store) \cup {id} |-> IF i = id THEN row ELSE store[i]]

\* variant: the row is kept and marked inactive
Remove_Soft(store, id) == [store EXCEPT ![id].active = FALSE]

\* db.delete(db_obj); db.commit()
Remove(store, id) == [i \in (DOMAIN store) \ {id} |-> store[i]]

\* variant: closed intervals, a booking that ends at s still counts
ExistingBookings_Closed(store, b, s, e) ==
    { i \in DOMAIN store :
        /\ store[i].book_id = b
        /\ store[i].end_time >= s
        /\ store[i].start_time <= e
        /\ store[i].active = TRUE }

\* variant: without the filter on active
ExistingBookings_AnyStatus(store, b, s, e) ==
    { i \in DOMAIN store :
        /\ store[i].book_id = b
        /\ store[i].end_time > s
        /\ store[i].start_time < e }

\* variant: without the filter on book_id
ExistingBookings_AnyBook(store, b, s, e) ==
    { i \in DOMAIN store :
        /\ store[i].end_time > s
        /\ store[i].start_time < e
        /\ store[i].active = TRUE }

\* select(Booking).filter(book_id == b, end_time > s, start_time < e, active == True)
ExistingBookings(store, b, s, e) ==
    { i \in DOMAIN store :
        /\ store[i].book_id = b
        /\ store[i].end_time > s
        /\ store[i].start_time < e
        /\ store[i].active = TRUE }

(* --------------------------- CRUDBooking.create ------------------------ *)
\* variant: the overlap query is skipped for a booking that is created inactive
CreateOutcome_InactiveUnchecked(store, p) ==
    IF p.start_time >= p.end_time THEN ErrStartTime
    ELSE IF p.book_id \notin Books THEN ErrBook
    ELSE IF p.user_id \notin Users THEN ErrUser
    ELSE IF p.active /\ ExistingBookings(store, p.book_id, p.start_time, p.end_time) # {}
         THEN Conflict
    ELSE Ok

\* variant: only start_time > end_time is refused
CreateOutcome_EmptyAllowed(store, p) ==
    IF p.start_time > p.end_time THEN ErrStartTime
    ELSE IF p.book_id \notin Books THEN ErrBook
    ELSE IF p.user_id \notin Users THEN ErrUser
    ELSE IF ExistingBookings(store, p.book_id, p.start_time, p.end_time) # {}
         THEN Conflict
    ELSE Ok

CreateOutcome(store, p) ==
    IF p.start_time >= p.end_time THEN ErrStartTime
    ELSE IF p.book_id \notin Books THEN ErrBook
    ELSE IF p.user_id \notin Users THEN ErrUser
    ELSE IF ExistingBookings(store, p.book_id, p.start_time, p.end_time) # {}
         THEN Conflict
    ELSE Ok

\* create_booking: every failure of the CRUD leaves the endpoint as status 400
CreateStatus(r) == IF r = Ok THEN 200 ELSE 400

Create(p) ==
    LET r == CreateOutcome(booking, p) IN
    /\ IF r = Ok
       THEN /\ next_id <= MaxId
            /\ booking' = Insert(booking, next_id, Row(p))
            /\ next_id' = next_id + 1
            /\ call' = Answer("create", next_id, p, NoRow, r, CreateStatus(r))
       ELSE /\ call' = Answer("create", NoId, p, NoRow, r, CreateStatus(r))
            /\ UNCHANGED <<booking, next_id>>
    /\ UNCHANGED <<clock, req>>

(* --------------------------- CRUDBooking.update ------------------------ *)
\* obj_in.start_time or db_obj.start_time: a datetime is never falsy and the
\* payload always carries start_time, so the stored value is never taken
StartTimeNaive(p, db_obj) == p.start_time
EndTimeNaive(p, db_obj) == p.end_time

\* variant: without Booking.id != db_obj.id
UpdateExisting_WithItself(store, id, db_obj, p) ==
    ExistingBookings(store, db_obj.book_id, StartTimeNaive(p, db_obj),
                     EndTimeNaive(p, db_obj))

\* variant: the overlap query looks at the book of the payload
UpdateExisting_PayloadBook(store, id, db_obj, p) ==
    ExistingBookings(store, p.book_id, StartTimeNaive(p, db_obj),
                     EndTimeNaive(p, db_obj)) \ {id}

\* the overlap query of update: the other active bookings of db_obj.book_id
UpdateExisting(store, id, db_obj, p) ==
    ExistingBookings(store, db_obj.book_id, StartTimeNaive(p, db_obj),
                     EndTimeNaive(p, db_obj)) \ {id}

\* variant: the book and the user looked up are those stored on the booking
UpdateOutcome_StoredIds(store, id, db_obj, p) ==
    IF p.start_time >= p.end_time THEN ErrStartTime
    ELSE IF db_obj.book_id \notin Books THEN ErrBook
    ELSE IF db_obj.user_id \notin Users THEN ErrUser
    ELSE IF UpdateExisting(store, id, db_obj, p) # {} THEN Conflict
    ELSE Ok

\* "if start_time_naive or end_time_naive" always holds, the query always runs
UpdateOutcome(store, id, db_obj, p) ==
    IF p.start_time >= p.end_time THEN ErrStartTime
    ELSE IF p.book_id \notin Books THEN ErrBook
    ELSE IF p.user_id \notin Users THEN ErrUser
    ELSE IF UpdateExisting(store, id, db_obj, p) # {} THEN Conflict
    ELSE Ok

\* variant: obj_in.dict() without exclude_unset, the default of active is written
SetFields_WithDefaults(db_obj, p) ==
    [book_id |-> p.book_id, user_id |-> p.user_id, start_time |-> p.start_time,
     end_time |-> p.end_time, active |-> p.active]

\* variant: active is written only when it is true (a falsy value is skipped)
SetFields_SkipsFalse(db_obj, p) ==
    [book_id |-> p.book_id, user_id |-> p.user_id, start_time |-> p.start_time,
     end_time |-> p.end_time,
     active |-> IF p.active_set /\ p.active THEN p.active ELSE db_obj.active]

\* for field, value in obj_in.dict(exclude_unset=True).items(): setattr(...)
SetFields(db_obj, p) ==
    [book_id |-> p.book_id, user_id |-> p.user_id, start_time |-> p.start_time,
     end_time |-> p.end_time,
     active |-> IF p.active_set THEN p.active ELSE db_obj.active]

\* update_booking: the 404 raised inside the try block is caught by its own
\* "except Exception" and leaves as 400, like every other failure
UpdateStatus(r) == IF r = Ok THEN 200 ELSE 400

\* variant: the updated booking is stored as a new row with a new id
Update_NewId(id, p) ==
    /\ IF id \notin DOMAIN booking
       THEN /\ call' = Answer("update", id, p, NoRow, NotFound, UpdateStatus(NotFound))
            /\ UNCHANGED <<booking, next_id>>
       ELSE LET r == UpdateOutcome(booking, id, booking[id], p) IN
            /\ call' = Answer("update", id, p, booking[id], r, UpdateStatus(r))
            /\ IF r = Ok
               THEN /\ booking' = Insert(Remove(booking, id), next_id,
                                         SetFields(booking[id], p))
                    /\ next_id' = next_id + 1
               ELSE UNCHANGED <<booking, next_id>>
    /\ UNCHANGED <<clock, req>>

\* variant: the fields are written before the overlap query and stay written
Update_WritesFirst(id, p) ==
    /\ IF id \notin DOMAIN booking
       THEN /\ call' = Answer("update", id, p, NoRow, NotFound, UpdateStatus(NotFound))
            /\ UNCHANGED booking
       ELSE LET r == UpdateOutcome(booking, id, booking[id], p) IN
            /\ call' = Answer("update", id, p, booking[id], r, UpdateStatus(r))
            /\ booking' = IF r \in {Ok, Conflict}
                          THEN [booking EXCEPT ![id] = SetFields(booking[id], p)]
                          ELSE booking
    /\ UNCHANGED <<next_id, clock, req>>

Update(id, p) ==
    /\ IF id \notin DOMAIN booking
       THEN /\ call' = Answer("update", id, p, NoRow, NotFound, UpdateStatus(NotFound))
            /\ UNCHANGED booking
       ELSE LET r == UpdateOutcome(booking, id, booking[id], p) IN
            /\ call' = Answer("update", id, p, booking[id], r, UpdateStatus(r))
            /\ booking' = IF r = Ok
                          THEN [booking EXCEPT ![id] = SetFields(booking[id], p)]
                          ELSE booking
    /\ UNCHANGED <<next_id, clock, req>>

(* --------------------------- CRUDBooking.cancel ------------------------ *)
\* variant: end_time is set to the clock, without the three hours
Cancelled_NoOffset(db_obj, now) == [db_obj EXCEPT !.active = FALSE, !.end_time = now]

\* db_obj.active = False; db_obj.end_time = datetime.utcnow() + timedelta(hours=3)
Cancelled(db_obj, now) == [db_obj EXCEPT !.active = FALSE, !.end_time = now + Offset]

\* cancel_booking, delete_booking, read_booking: the 404 raised inside the try
\* block is caught by "except Exception" and leaves as 500
ReadStatus(r) == IF r = Ok THEN 200 ELSE 500

Cancel(id) ==
    /\ IF id \notin DOMAIN booking
       THEN /\ call' = Answer("cancel", id, NoPayload, NoRow, NotFound, ReadStatus(NotFound))
            /\ UNCHANGED booking
       ELSE /\ booking' = [booking EXCEPT ![id] = Cancelled(booking[id], clock)]
            /\ call' = Answer("cancel", id, NoPayload, booking[id], Ok, ReadStatus(Ok))
    /\ UNCHANGED <<next_id, clock, req>>

(* --------------------------- CRUDBooking.remove ------------------------ *)
Delete(id) ==
    /\ IF id \notin DOMAIN booking
       THEN /\ call' = Answer("delete", id, NoPayload, NoRow, NotFound, ReadStatus(NotFound))
            /\ UNCHANGED booking
       ELSE /\ booking' = Remove(booking, id)
            /\ call' = Answer("delete", id, NoPayload, booking[id], Ok, ReadStatus(Ok))
    /\ UNCHANGED <<next_id, clock, req>>

(* ---------------------------- CRUDBooking.get -------------------------- *)
Get(id) ==
    /\ call' = IF id \in DOMAIN booking
               THEN Answer("get", id, NoPayload, booking[id], Ok, ReadStatus(Ok))
               ELSE Answer("get", id, NoPayload, NoRow, NotFound, ReadStatus(NotFound))
    /\ UNCHANGED <<booking, next_id, clock, req>>

(* ------------------------------ update_bookings ------------------------ *)
\* variant: a booking that ends exactly at now is selected too
ExpiredBookings_Inclusive(store, now) ==
    { i \in DOMAIN store : store[i].end_time <= now /\ store[i].active = TRUE }

\* variant: end_time is compared with the clock, without the three hours
ExpiredBookings_UtcNow(store, now) ==
    { i \in DOMAIN store : store[i].end_time < now - Offset /\ store[i].active = TRUE }

\* select(Booking).filter(Booking.end_time < now, Booking.active == True)
ExpiredBookings(store, now) ==
    { i \in DOMAIN store : store[i].end_time < now /\ store[i].active = TRUE }

\* variant: the task also sets end_time of the expired bookings to now
Sweep_StampsEndTime ==
    LET now == clock + Offset
        expired_bookings == ExpiredBookings(booking, now) IN
    /\ booking' = [i \in DOMAIN booking |->
                     IF i \in expired_bookings
                     THEN [booking[i] EXCEPT !.active = FALSE, !.end_time = now]
                     ELSE booking[i]]
    /\ call' = Answer("sweep", NoId, NoPayload, NoRow, Ok, 0)
    /\ UNCHANGED <<next_id, clock, req>>

Sweep ==
    LET now == clock + Offset
        expired_bookings == ExpiredBookings(booking, now) IN
    /\ booking' = [i \in DOMAIN booking |->
                     IF i \in expired_bookings
                     THEN [booking[i] EXCEPT !.active = FALSE]
                     ELSE booking[i]]
    /\ call' = Answer("sweep", NoId, NoPayload, NoRow, Ok, 0)
    /\ UNCHANGED <<next_id, clock, req>>

(* --------------------------------- clock ------------------------------- *)
\* time passes between two requests
Tick ==
    /\ call.pc = "idle"
    /\ clock < MaxClock
    /\ clock' = clock + 1
    /\ UNCHANGED <<booking, next_id, call, req>>

(* ---------------------------- get_session ------------------------------ *)
\* the answer has been sent and the session of the request is closed
Return ==
    /\ call.pc = "done"
    /\ call' = NoCall
    /\ UNCHANGED <<booking, next_id, clock, req>>

(* ------------------- requests handled one at a time -------------------- *)
\* the endpoints of api/v1/endpoints/booking.py and the periodic task; one
\* starts only when the request before it has been answered
create_booking ==
    /\ call.pc = "idle"
    /\ \E booking_in \in Payloads : Create(booking_in)

update_booking ==
    /\ call.pc = "idle"
    /\ \E booking_id \in Ids, booking_in \in Payloads : Update(booking_id, booking_in)

cancel_booking ==
    /\ call.pc = "idle"
    /\ \E booking_id \in Ids : Cancel(booking_id)

delete_booking ==
    /\ call.pc = "idle"
    /\ \E booking_id \in Ids : Delete(booking_id)

read_booking ==
    /\ call.pc = "idle"
    /\ \E booking_id \in Ids : Get(booking_id)

check_bookings ==
    /\ call.pc = "idle"
    /\ Sweep

Init ==
    /\ booking = << >>
    /\ next_id = 1
    /\ clock = 0
    /\ call = NoCall
    /\ req = [q \in Procs |-> NoCall]

Next ==
    \/ create_booking
    \/ update_booking
    \/ cancel_booking
    \/ delete_booking
    \/ read_booking
    \/ check_bookings
    \/ Tick
    \/ Return

Spec == Init /\ [][Next]_vars

(* ---------------------- the database may fail -------------------------- *)
\* db.commit() raises SQLAlchemyError and the transaction is not applied: the
\* rows the session added, changed or deleted never reach the table.  create
\* and update roll the session back; remove and cancel leave that to the close
\* of the session in get_session.  The id the INSERT drew from the sequence
\* before the failure is not given back.  db.refresh() raises after a commit
\* that was applied.

\* variant: the row of a create whose commit failed is stored all the same
CreateFails_KeepsWrite(p) ==
    /\ CreateOutcome(booking, p) = Ok
    /\ next_id <= MaxId
    /\ booking' = Insert(booking, next_id, Row(p))
    /\ next_id' = next_id + 1
    /\ call' = Answer("create", NoId, p, NoRow, CommitFailed, CreateStatus(CommitFailed))
    /\ UNCHANGED <<clock, req>>

CreateFails(p) ==
    /\ CreateOutcome(booking, p) = Ok
    /\ \/ /\ call' = Answer("create", NoId, p, NoRow, CommitFailed, CreateStatus(CommitFailed))
          /\ \E n \in {next_id, next_id + 1} : n <= MaxId + 1 /\ next_id' = n
          /\ UNCHANGED booking
       \/ /\ next_id <= MaxId
          /\ booking' = Insert(booking, next_id, Row(p))
          /\ next_id' = next_id + 1
          /\ call' = Answer("create", NoId, p, NoRow, RefreshFailed, CreateStatus(RefreshFailed))
    /\ UNCHANGED <<clock, req>>

UpdateFails(id, p) ==
    /\ id \in DOMAIN booking
    /\ UpdateOutcome(booking, id, booking[id], p) = Ok
    /\ \/ /\ call' = Answer("update", id, p, booking[id], CommitFailed, UpdateStatus(CommitFailed))
          /\ UNCHANGED booking
       \/ /\ booking' = [booking EXCEPT ![id] = SetFields(booking[id], p)]
          /\ call' = Answer("update", id, p, booking[id], RefreshFailed, UpdateStatus(RefreshFailed))
    /\ UNCHANGED <<next_id, clock, req>>

CancelFails(id) ==
    /\ id \in DOMAIN booking
    /\ \/ /\ call' = Answer("cancel", id, NoPayload, booking[id], CommitFailed, ReadStatus(CommitFailed))
          /\ UNCHANGED booking
       \/ /\ booking' = [booking EXCEPT ![id] = Cancelled(booking[id], clock)]
          /\ call' = Answer("cancel", id, NoPayload, booking[id], RefreshFailed, ReadStatus(RefreshFailed))
    /\ UNCHANGED <<next_id, clock, req>>

\* remove has no refresh
DeleteFails(id) ==
    /\ id \in DOMAIN booking
    /\ call' = Answer("delete", id, NoPayload, booking[id], CommitFailed, ReadStatus(CommitFailed))
    /\ UNCHANGED <<booking, next_id, clock, req>>

create_booking_fails ==
    /\ call.pc = "idle"
    /\ \E booking_in \in Payloads : CreateFails(booking_in)

update_booking_fails ==
    /\ call.pc = "idle"
    /\ \E booking_id \in Ids, booking_in \in Payloads : UpdateFails(booking_id, booking_in)

cancel_booking_fails ==
    /\ call.pc = "idle"
    /\ \E booking_id \in Ids : CancelFails(booking_id)

delete_booking_fails ==
    /\ call.pc = "idle"
    /\ \E booking_id \in Ids : DeleteFails(booking_id)

NextFail ==
    \/ Next
    \/ create_booking_fails
    \/ update_booking_fails
    \/ cancel_booking_fails
    \/ delete_booking_fails

SpecFail == Init /\ [][NextFail]_vars

(* ------------------- the periodic task is scheduled -------------------- *)
\* beat_schedule: crontab(minute='*') sends check_bookings every minute, whatever
\* requests arrive, so the task runs again and again (strong fairness: it
\* cannot run during the step that answers a request); every request is
\* answered (weak fairness of Return).
\* The requests that arrive beside the task name a book and a user that exist.
LivePayloads ==
    { p \in Payloads : p.book_id \in Books /\ p.user_id \in Users }

live_create_booking ==
    /\ call.pc = "idle"
    /\ \E booking_in \in LivePayloads : Create(booking_in)

live_update_booking ==
    /\ call.pc = "idle"
    /\ \E booking_id \in Ids, booking_in \in LivePayloads : Update(booking_id, booking_in)

NextLive ==
    \/ live_create_booking
    \/ live_update_booking
    \/ cancel_booking
    \/ delete_booking
    \/ check_bookings
    \/ Tick
    \/ Return

SpecLive ==
    /\ Init /\ [][NextLive]_vars
    /\ SF_vars(check_bookings)
    /\ WF_vars(Return)

(* ------------------ the periodic task may fail ------------------------- *)
\* update_bookings works in one session and commits once, after the loop; when
\* the commit (or the query before it) raises, nothing of the batch is applied
\* and the session is closed by "async with".  check_bookings catches nothing:
\* the exception ends this run of the task in the worker, and beat, a process
\* of its own, sends the task again the next minute.

\* variant: one of the selected bookings is deactivated although the commit failed
SweepFails_Partial ==
    LET expired_bookings == ExpiredBookings(booking, clock + Offset) IN
    /\ booking' = IF expired_bookings = {} THEN booking
                  ELSE LET i == CHOOSE j \in expired_bookings : TRUE
                       IN  [booking EXCEPT ![i].active = FALSE]
    /\ call' = Answer("sweep", NoId, NoPayload, NoRow, CommitFailed, 0)
    /\ UNCHANGED <<next_id, clock, req>>

\* variant: the exception ends the worker and no task or request runs after it
SweepFails_StopsSchedule ==
    /\ call' = [Answer("sweep", NoId, NoPayload, NoRow, CommitFailed, 0)
                  EXCEPT !.pc = "crashed"]
    /\ UNCHANGED <<booking, next_id, clock, req>>

SweepFails ==
    /\ call' = Answer("sweep", NoId, NoPayload, NoRow, CommitFailed, 0)
    /\ UNCHANGED <<booking, next_id, clock, req>>

check_bookings_fails ==
    /\ call.pc = "idle"
    /\ SweepFails

NextLiveFail ==
    \/ NextLive
    \/ check_bookings_fails

\* the database does not fail for ever: among the runs of the task, which beat
\* starts every minute, there are again and again runs whose commit succeeds
SpecLiveFail ==
    /\ Init /\ [][NextLiveFail]_vars
    /\ SF_vars(check_bookings)
    /\ WF_vars(Return)

(* ------------------- requests handled concurrently --------------------- *)
\* Each request has its own session (get_session) on PostgreSQL at its default
\* isolation, read committed: a query sees the rows committed when it runs, and
\* nothing locks the rows or the interval between a query and the commit.

\* the session of request q has run create up to and including the overlap
\* query (lines 33-58); the new row is not yet added
CreateCheck(q, p) ==
    LET r == CreateOutcome(booking, p) IN
    /\ req' = [req EXCEPT ![q] =
                 IF r = Ok
                 THEN [NoCall EXCEPT !.pc = "checked", !.op = "create", !.payload = p]
                 ELSE Answer("create", NoId, p, NoRow, r, CreateStatus(r))]
    /\ UNCHANGED <<booking, next_id, clock, call>>

\* db.add(db_obj); db.commit(); db.refresh(db_obj) of request q (lines 60-70)
CreateCommit(q) ==
    /\ req[q].pc = "checked"
    /\ req[q].op = "create"
    /\ booking' = Insert(booking, next_id, Row(req[q].payload))
    /\ next_id' = next_id + 1
    /\ req' = [req EXCEPT ![q] =
                 Answer("create", next_id, req[q].payload, NoRow, Ok, CreateStatus(Ok))]
    /\ UNCHANGED <<clock, call>>

\* a request that has not started runs create_booking up to the overlap query
create_check ==
    \E q \in Procs :
        /\ req[q].pc = "idle"
        /\ \E booking_in \in Payloads : CreateCheck(q, booking_in)

create_commit == \E q \in Procs : CreateCommit(q)

NextConc ==
    \/ create_check
    \/ create_commit

SpecConc == Init /\ [][NextConc]_vars

(* ------------- creates and updates handled concurrently ---------------- *)
\* Requests arrive one after another on each of the sessions and run beside
\* the request on the other session.  A request that is refused writes nothing
\* and is not recorded; a request that has committed is answered at once and
\* its session takes the next request.  The payloads are bookings of one book
\* by one user, with active omitted (so every booking is active).
RacePayloads ==
    { p \in Payloads : p.book_id = 1 /\ p.user_id = 1 /\ ~p.active_set }

\* the UPDATE that the commit of update flushes: it sets the columns whose
\* value the request changed on the row it loaded (db_obj), and leaves the other
\* columns of the stored row as they are
Flushed(row, db_obj, p) ==
    LET new == SetFields(db_obj, p) IN
    [book_id |-> IF new.book_id # db_obj.book_id THEN new.book_id ELSE row.book_id,
     user_id |-> IF new.user_id # db_obj.user_id THEN new.user_id ELSE row.user_id,
     start_time |-> IF new.start_time # db_obj.start_time THEN new.start_time
                    ELSE row.start_time,
     end_time |-> IF new.end_time # db_obj.end_time THEN new.end_time ELSE row.end_time,
     active |-> IF new.active # db_obj.active THEN new.active ELSE row.active]

\* the session of request q has loaded the booking (crud_booking.get) and has
\* run update up to and including the overlap query (lines 145-176); nothing
\* is written yet
UpdateCheck(q, id, p) ==
    /\ req' = [req EXCEPT ![q] =
                 IF id \notin DOMAIN booking
                 THEN Answer("update", id, p, NoRow, NotFound, UpdateStatus(NotFound))
                 ELSE LET r == UpdateOutcome(booking, id, booking[id], p) IN
                      IF r = Ok
                      THEN [NoCall EXCEPT !.pc = "checked", !.op = "update", !.id = id,
                                          !.payload = p, !.found = booking[id]]
                      ELSE Answer("update", id, p, booking[id], r, UpdateStatus(r))]
    /\ UNCHANGED <<booking, next_id, clock, call>>

\* db.add(db_obj); db.commit(); db.refresh(db_obj) of request q (lines 60-70),
\* and the answer
CreateCommitAnswered(q) ==
    /\ req[q].pc = "checked"
    /\ req[q].op = "create"
    /\ next_id <= MaxId
    /\ booking' = Insert(booking, next_id, Row(req[q].payload))
    /\ next_id' = next_id + 1
    /\ req' = [req EXCEPT ![q] = NoCall]
    /\ UNCHANGED <<clock, call>>

\* setattr(db_obj, field, value) for the fields of the payload; db.commit();
\* db.refresh(db_obj) of request q (lines 178-183), and the answer.  No request
\* of this specification removes a row, so the row is still stored.
UpdateCommitAnswered(q) ==
    /\ req[q].pc = "checked"
    /\ req[q].op = "update"
    /\ booking' = [booking EXCEPT ![req[q].id] =
                     Flushed(booking[req[q].id], req[q].found, req[q].payload)]
    /\ req' = [req EXCEPT ![q] = NoCall]
    /\ UNCHANGED <<next_id, clock, call>>

race_create_check ==
    \E q \in Procs :
        /\ req[q].pc = "idle"
        /\ \E booking_in \in RacePayloads :
              /\ CreateOutcome(booking, booking_in) = Ok
              /\ CreateCheck(q, booking_in)

race_update_check ==
    \E q \in Procs :
        /\ req[q].pc = "idle"
        /\ \E booking_id \in DOMAIN booking, booking_in \in RacePayloads :
              /\ UpdateOutcome(booking, booking_id, booking[booking_id], booking_in) = Ok
              /\ UpdateCheck(q, booking_id, booking_in)

race_create_commit == \E q \in Procs : CreateCommitAnswered(q)

race_update_commit == \E q \in Procs : UpdateCommitAnswered(q)

NextRace ==
    \/ race_create_check
    \/ race_create_commit
    \/ race_update_check
    \/ race_update_commit

SpecRace == Init /\ [][NextRace]_vars

(* ------------- the periodic task runs beside the requests -------------- *)
\* The task has a session of its own; its record is kept in call.  It reads
\* the expired bookings, and later flushes for each of them
\* "UPDATE booking SET active = false WHERE id = ..." and commits.  Nothing
\* is read again in between and no row is locked.

\* the rows of table t with the ids in set ids
Rows(t, ids) == [i \in ids |-> t[i]]

\* now = utcnow() + 3h; the query of lines 32-35: the session holds the rows
SweepSelect ==
    /\ call.pc = "idle"
    /\ call' = [NoCall EXCEPT !.pc = "selected", !.op = "sweep",
                              !.before = Rows(booking,
                                              ExpiredBookings(booking, clock + Offset))]
    /\ UNCHANGED <<booking, next_id, clock, req>>

\* variant: the flush writes every column of the row as the task loaded it
SweepCommit_WritesRow ==
    /\ call.pc = "selected"
    /\ booking' = [i \in DOMAIN booking |->
                     IF i \in DOMAIN call.before
                     THEN [call.before[i] EXCEPT !.active = FALSE]
                     ELSE booking[i]]
    /\ call' = [call EXCEPT !.pc = "done", !.result = Ok]
    /\ UNCHANGED <<next_id, clock, req>>

\* booking.active = False for the rows held; session.commit() (lines 36-38).
\* No request of these specifications removes a row.
SweepCommit ==
    /\ call.pc = "selected"
    /\ booking' = [i \in DOMAIN booking |->
                     IF i \in DOMAIN call.before
                     THEN [booking[i] EXCEPT !.active = FALSE]
                     ELSE booking[i]]
    /\ call' = [call EXCEPT !.pc = "done", !.result = Ok]
    /\ UNCHANGED <<next_id, clock, req>>

\* the requests of one session, one after another, beside the task
one_create_check ==
    /\ req[1].pc = "idle"
    /\ \E booking_in \in RacePayloads :
          /\ CreateOutcome(booking, booking_in) = Ok
          /\ CreateCheck(1, booking_in)

one_update_check ==
    /\ req[1].pc = "idle"
    /\ \E booking_id \in DOMAIN booking, booking_in \in RacePayloads :
          /\ UpdateOutcome(booking, booking_id, booking[booking_id], booking_in) = Ok
          /\ UpdateCheck(1, booking_id, booking_in)

one_create_commit == CreateCommitAnswered(1)

one_update_commit == UpdateCommitAnswered(1)

\* the task beside creates and updates
NextSweepUpdate ==
    \/ one_create_check
    \/ one_create_commit
    \/ one_update_check
    \/ one_update_commit
    \/ SweepSelect
    \/ SweepCommit
    \/ Return

SpecSweepUpdate == Init /\ [][NextSweepUpdate]_vars

\* the session of request q has loaded the booking of cancel (lines 238-241)
\* and has set active and end_time on the object (lines 243-244); the value of
\* end_time is kept in the payload field of the record
CancelLoad(q, id) ==
    /\ req[q].pc = "idle"
    /\ id \in DOMAIN booking
    /\ req' = [req EXCEPT ![q] =
                 [NoCall EXCEPT !.pc = "loaded", !.op = "cancel", !.id = id,
                                !.found = booking[id],
                                !.payload = [NoPayload EXCEPT !.end_time = clock + Offset]]]
    /\ UNCHANGED <<booking, next_id, clock, call>>

\* db.commit() of cancel (line 245): the UPDATE sets the columns whose value
\* the request changed on the row it loaded.  The record of the answer stays:
\* a session cancels once.
CancelCommit(q) ==
    /\ req[q].pc = "loaded"
    /\ req[q].op = "cancel"
    /\ LET id == req[q].id
           db_obj == req[q].found
           end_time == req[q].payload.end_time
       IN  booking' = [booking EXCEPT ![id] =
                         [@ EXCEPT !.active = IF db_obj.active # FALSE THEN FALSE ELSE @,
                                   !.end_time = IF db_obj.end_time # end_time
                                                THEN end_time ELSE @]]
    /\ req' = [req EXCEPT ![q].pc = "done", ![q].result = Ok]
    /\ UNCHANGED <<next_id, clock, call>>

cancel_load == \E q \in Procs, booking_id \in Ids : CancelLoad(q, booking_id)

cancel_commit == \E q \in Procs : CancelCommit(q)

\* the task beside creates and cancels
NextSweepCancel ==
    \/ race_create_check
    \/ race_create_commit
    \/ cancel_load
    \/ cancel_commit
    \/ SweepSelect
    \/ SweepCommit
    \/ Return
    \/ Tick

SpecSweepCancel == Init /\ [][NextSweepCancel]_vars

(* ======================================================================= *)
(*                               Properties                                *)
(* ======================================================================= *)
\* half-open intervals [s1, e1) and [s2, e2) overlap
Overlap(s1, e1, s2, e2) == e1 > s2 /\ s1 < e2

\* the request just answered was of the operation op; call.before is the table
\* it started from and booking the table it left
Answered(op) == call.pc = "done" /\ call.op = op

\* the active bookings of book b in table t, other than booking id, that
\* overlap [s, e)
ActiveOverlapping(t, b, s, e, id) ==
    { i \in (DOMAIN t) \ {id} :
        /\ t[i].active
        /\ t[i].book_id = b
        /\ Overlap(t[i].start_time, t[i].end_time, s, e) }

\* the payload passes the validation of create and update
Valid(p) == p.start_time < p.end_time /\ p.book_id \in Books /\ p.user_id \in Users

\* C1: any two distinct active bookings of the same book have non-overlapping
\* half-open intervals, after any sequence of requests handled one at a time.
C1_NonOverlap ==
    \A i, j \in DOMAIN booking :
        (i # j /\ booking[i].active /\ booking[j].active
              /\ booking[i].book_id = booking[j].book_id)
        => ~Overlap(booking[i].start_time, booking[i].end_time,
                    booking[j].start_time, booking[j].end_time)

\* C2: two Creates of active bookings with overlapping intervals on the same
\* book, run concurrently from a state where neither conflicts, end with
\* exactly one answered with the booking and the other with conflict, and the
\* two are never both stored.
C2_ExactlyOneCreateSucceeds ==
    LET p1 == req[1].payload
        p2 == req[2].payload
    IN  ( /\ req[1].pc = "done" /\ req[2].pc = "done"
          /\ req[1].result \in {Ok, Conflict} /\ req[2].result \in {Ok, Conflict}
          /\ p1.active /\ p2.active
          /\ p1.book_id = p2.book_id
          /\ Overlap(p1.start_time, p1.end_time, p2.start_time, p2.end_time) )
        => /\ {req[1].result, req[2].result} = {Ok, Conflict}
           /\ ~({req[1].id, req[2].id} \subseteq DOMAIN booking)

\* C3: every stored booking, active or not, has start_time < end_time.
C3_StartBeforeEnd ==
    \A i \in DOMAIN booking : booking[i].start_time < booking[i].end_time

\* C4 (as claimed): a stored booking that is inactive is never active again.
C4_InactiveIsTerminal ==
    [][\A i \in (DOMAIN booking) \cap (DOMAIN booking') :
          ~booking[i].active => ~booking'[i].active]_vars

\* C4 (amended): a stored booking that is inactive becomes active again only by
\* a successful Update of that booking whose payload supplies active = true.
C4_ReactivatedOnlyByUpdate ==
    [][\A i \in (DOMAIN booking) \cap (DOMAIN booking') :
          (~booking[i].active /\ booking'[i].active)
          => /\ call.pc = "idle" /\ call'.pc = "done" /\ call'.op = "update"
             /\ call'.id = i
             /\ call'.result = Ok
             /\ call'.payload.active_set
             /\ call'.payload.active]_vars

\* an Update that omits active has succeeded on an inactive booking, which
\* is still inactive
C4_Witness ==
    /\ Answered("update") /\ call.result = Ok
    /\ ~call.payload.active_set
    /\ ~call.found.active
    /\ ~booking[call.id].active

\* C5: a Create, or an Update of a stored booking, whose interval has
\* start_time >= end_time returns a validation error and changes no booking.
C5_OrderingPrecondition ==
    ( /\ Answered("create") \/ (Answered("update") /\ call.id \in DOMAIN call.before)
      /\ call.payload.start_time >= call.payload.end_time )
    => (call.result \in ValidationErrors /\ booking = call.before)

\* an Update of a stored booking was refused for start_time = end_time
C5_Witness ==
    /\ Answered("update") /\ call.id \in DOMAIN call.before
    /\ call.payload.start_time = call.payload.end_time
    /\ call.result = ErrStartTime

\* C6: a Create with start_time < end_time and existing book and user returns
\* conflict and stores nothing iff some active booking of the same book
\* overlaps the interval; otherwise it stores exactly one new booking with the
\* fields of the payload.
C6_CreateConflictIffOverlap ==
    (Answered("create") /\ Valid(call.payload))
    => LET p == call.payload
           blocked == ActiveOverlapping(call.before, p.book_id, p.start_time,
                                        p.end_time, NoId) # {}
       IN  /\ (call.result = Conflict) <=> blocked
           /\ blocked => booking = call.before
           /\ ~blocked =>
                /\ call.result = Ok
                /\ call.id \notin DOMAIN call.before
                /\ DOMAIN booking = (DOMAIN call.before) \cup {call.id}
                /\ \A i \in DOMAIN call.before : booking[i] = call.before[i]
                /\ booking[call.id] =
                     [book_id |-> p.book_id, user_id |-> p.user_id,
                      start_time |-> p.start_time, end_time |-> p.end_time,
                      active |-> p.active]

\* a booking has been created exactly adjacent to an active booking of its book
C6_Witness ==
    /\ Answered("create") /\ call.result = Ok
    /\ \E i \in DOMAIN call.before :
          /\ call.before[i].active
          /\ call.before[i].book_id = call.payload.book_id
          /\ \/ call.before[i].end_time = call.payload.start_time
             \/ call.before[i].start_time = call.payload.end_time

\* C7: a Create or Update is answered with conflict only when some active
\* booking (other than the updated one) overlaps the requested interval on the
\* book whose bookings the request consults; an inactive booking never blocks.
C7_InactiveBlocksNothing ==
    ((Answered("create") \/ Answered("update")) /\ call.result = Conflict)
    => LET p == call.payload
           b == IF call.op = "create" THEN p.book_id ELSE call.before[call.id].book_id
       IN  ActiveOverlapping(call.before, b, p.start_time, p.end_time, call.id) # {}

\* a Create has succeeded although an inactive booking of the same book
\* overlaps its interval
C7_Witness ==
    /\ Answered("create") /\ call.result = Ok
    /\ \E i \in DOMAIN call.before :
          /\ ~call.before[i].active
          /\ call.before[i].book_id = call.payload.book_id
          /\ Overlap(call.before[i].start_time, call.before[i].end_time,
                     call.payload.start_time, call.payload.end_time)

\* C8: an Update answered with conflict changes no field of any booking.
C8_UpdateConflictChangesNothing ==
    (Answered("update") /\ call.result = Conflict) => booking = call.before

\* an Update was answered with conflict although its payload differs from the
\* stored booking in book, interval and active
C8_Witness ==
    /\ Answered("update") /\ call.result = Conflict
    /\ call.found.book_id # call.payload.book_id
    /\ call.found.start_time # call.payload.start_time
    /\ call.found.end_time # call.payload.end_time
    /\ call.found.active # call.payload.active

\* C9: an Update of a stored booking that passes validation is answered with
\* conflict iff some other active booking of the book the booking is stored on
\* overlaps the interval of the payload; the booking itself is not counted.
C9_UpdateExcludesItself ==
    (Answered("update") /\ call.id \in DOMAIN call.before /\ Valid(call.payload))
    => LET p == call.payload
           others == ActiveOverlapping(call.before, call.before[call.id].book_id,
                                       p.start_time, p.end_time, call.id)
       IN  /\ (others # {}) => call.result = Conflict
           /\ (others = {}) => call.result = Ok

\* an Update of an active booking has succeeded with an interval that overlaps
\* the interval the booking had, on the same book
C9_Witness ==
    /\ Answered("update") /\ call.result = Ok
    /\ call.found.active
    /\ call.found.book_id = call.payload.book_id
    /\ Overlap(call.found.start_time, call.found.end_time,
               call.payload.start_time, call.payload.end_time)

\* C10: after a successful Update the booking has book_id, user_id, start_time
\* and end_time of the payload, and active of the payload when the payload
\* supplies it; an omitted active keeps the value the booking had.
C10_PartialUpdate ==
    (Answered("update") /\ call.result = Ok)
    => LET p == call.payload
           old == call.before[call.id]
           new == booking[call.id]
       IN  /\ new.book_id = p.book_id
           /\ new.user_id = p.user_id
           /\ new.start_time = p.start_time
           /\ new.end_time = p.end_time
           /\ p.active_set => new.active = p.active
           /\ ~p.active_set => new.active = old.active

\* an Update that omits active has changed the interval and the book of an
\* active booking, which is still active
C10_Witness ==
    /\ Answered("update") /\ call.result = Ok
    /\ ~call.payload.active_set
    /\ call.found.active /\ booking[call.id].active
    /\ call.found.start_time # call.payload.start_time
    /\ call.found.end_time # call.payload.end_time
    /\ call.found.book_id # call.payload.book_id

\* C11: a Cancel of a stored booking succeeds whatever the other bookings are,
\* sets active to false and end_time to the clock plus three hours, and leaves
\* book_id, user_id and start_time of the booking and every other booking as
\* they were; a Cancel of an id that is not stored returns not-found and
\* changes nothing.
C11_CancelEffect ==
    Answered("cancel")
    => IF call.id \in DOMAIN call.before
       THEN LET old == call.before[call.id]
                new == booking[call.id]
            IN  /\ call.result = Ok
                /\ DOMAIN booking = DOMAIN call.before
                /\ new.active = FALSE
                /\ new.end_time = clock + Offset
                /\ new.book_id = old.book_id
                /\ new.user_id = old.user_id
                /\ new.start_time = old.start_time
                /\ \A i \in (DOMAIN booking) \ {call.id} : booking[i] = call.before[i]
       ELSE call.result = NotFound /\ booking = call.before

\* an active booking has been cancelled after the clock advanced, while another
\* active booking of the same book overlaps the interval it now has
C11_Witness ==
    /\ Answered("cancel") /\ call.result = Ok
    /\ clock > 0
    /\ call.found.active
    /\ \E i \in (DOMAIN booking) \ {call.id} :
          /\ booking[i].active
          /\ booking[i].book_id = booking[call.id].book_id
          /\ Overlap(booking[i].start_time, booking[i].end_time,
                     booking[call.id].start_time, booking[call.id].end_time)

\* C12: a Cancel of a stored booking that is already inactive either returns
\* the booking or returns not-found, and in both cases leaves every field of
\* the booking as it was (so start_time, book_id and user_id too).
C12_CancelIdempotent ==
    ( /\ Answered("cancel")
      /\ call.id \in DOMAIN call.before
      /\ ~call.before[call.id].active )
    => /\ call.result \in {Ok, NotFound}
       /\ booking = call.before

\* C13: a sweep run with no request in progress deactivates exactly the
\* bookings that were active with end_time < clock + 3h and changes nothing
\* else; after it no booking is selected by a sweep at the same instant, so a
\* second sweep changes nothing; a sweep never fails, also when it finds no
\* expired booking.
C13_SweepConvergence ==
    Answered("sweep")
    => LET now_reference == clock + Offset
           expired == { i \in DOMAIN call.before :
                          /\ call.before[i].active
                          /\ call.before[i].end_time < now_reference }
       IN  /\ call.result = Ok
           /\ DOMAIN booking = DOMAIN call.before
           /\ \A i \in expired :
                booking[i] = [call.before[i] EXCEPT !.active = FALSE]
           /\ \A i \in (DOMAIN booking) \ expired : booking[i] = call.before[i]
           /\ \A i \in DOMAIN booking :
                ~(booking[i].active /\ booking[i].end_time < now_reference)

\* a sweep has deactivated one booking and left active a booking that ends
\* exactly at the reference instant
C13_Witness ==
    /\ Answered("sweep")
    /\ \E i, j \in DOMAIN booking :
          /\ call.before[i].active /\ ~booking[i].active
          /\ booking[j].active /\ booking[j].end_time = clock + Offset

\* a sweep has run on a table whose only active booking ends after the
\* reference instant, and has left the table as it was
C13_WitnessNothingExpired ==
    /\ Answered("sweep")
    /\ booking = call.before
    /\ \E i \in DOMAIN booking : booking[i].active /\ booking[i].end_time > clock + Offset

\* booking i is stored, active and has end_time before the reference instant
\* of the periodic task
Expired(i) ==
    /\ i \in DOMAIN booking
    /\ booking[i].active
    /\ booking[i].end_time < clock + Offset

\* C14: when the periodic task is scheduled again and again, a stored booking
\* that is active with end_time < clock + 3h is eventually inactive, unless a
\* request has deleted it or given it an end_time that is not before the
\* reference instant.
C14_EventualExpiry ==
    \A i \in Ids :
        Expired(i) ~> ( \/ i \notin DOMAIN booking
                        \/ ~booking[i].active
                        \/ booking[i].end_time >= clock + Offset )

\* the periodic task has deactivated a booking that was not yet expired when
\* the system started and has expired because the clock advanced
C14_Witness ==
    /\ Answered("sweep")
    /\ \E i \in DOMAIN booking :
          /\ call.before[i].active
          /\ call.before[i].end_time >= Offset
          /\ call.before[i].end_time < clock + Offset
          /\ ~booking[i].active

\* the step answers a request of operation op
Answers(op) == call.pc = "idle" /\ call'.pc = "done" /\ call'.op = op

\* C15: a Delete of a stored booking, active or not, removes exactly that
\* record and leaves the others as they were; a Delete of an id that is not
\* stored returns not-found and changes nothing.  An id that has been removed
\* is never stored again, a Get returns not-found exactly for the ids that are
\* not stored, and a conflict is only ever caused by a stored booking.  A
\* Cancel keeps the record.
C15_DeleteRemoves ==
    [][ /\ Answers("delete") =>
             IF call'.id \in DOMAIN booking
             THEN /\ call'.result = Ok
                  /\ DOMAIN booking' = (DOMAIN booking) \ {call'.id}
                  /\ \A i \in DOMAIN booking' : booking'[i] = booking[i]
             ELSE call'.result = NotFound /\ booking' = booking
        /\ \A i \in Ids : (i < next_id /\ i \notin DOMAIN booking)
                          => i \notin DOMAIN booking'
        /\ Answers("get") =>
             /\ (call'.result = NotFound) <=> (call'.id \notin DOMAIN booking)
             /\ (call'.result = Ok) => (call'.found = booking[call'.id])
        /\ (Answers("create") /\ call'.result = Conflict) =>
             ActiveOverlapping(booking, call'.payload.book_id, call'.payload.start_time,
                               call'.payload.end_time, NoId) # {}
        /\ (Answers("update") /\ call'.result = Conflict) =>
             ActiveOverlapping(booking, booking[call'.id].book_id,
                               call'.payload.start_time, call'.payload.end_time,
                               call'.id) # {}
        /\ (Answers("cancel") /\ call'.id \in DOMAIN booking) =>
             call'.id \in DOMAIN booking'
      ]_vars

\* a Get of an id that the sequence has handed out, and that has been deleted
\* since, returned not-found while another booking is still stored
C15_Witness ==
    /\ Answered("get") /\ call.result = NotFound
    /\ call.id < next_id
    /\ booking # << >>

\* C16: a Create, or an Update of a stored booking, whose payload names a book
\* or a user that does not exist returns a validation error and changes no
\* booking; an Update whose payload names an existing book and user and has
\* start_time < end_time returns no validation error, whatever is stored.
C16_ReferencesMustExist ==
    LET p == call.payload IN
    /\ ( /\ Answered("create") \/ (Answered("update") /\ call.id \in DOMAIN call.before)
         /\ p.book_id \notin Books \/ p.user_id \notin Users )
       => (call.result \in ValidationErrors /\ booking = call.before)
    /\ ( /\ Answered("update") /\ call.id \in DOMAIN call.before
         /\ Valid(p) )
       => call.result \notin ValidationErrors

\* an Update of a booking stored on an existing book was refused because the
\* book of its payload does not exist
C16_Witness ==
    /\ Answered("update") /\ call.id \in DOMAIN call.before
    /\ call.payload.start_time < call.payload.end_time
    /\ call.payload.book_id \notin Books
    /\ call.found.book_id \in Books
    /\ call.result = ErrBook
    /\ booking = call.before

\* the kind of an outcome, in the taxonomy of the errors
Kind(r) ==
    IF r \in ValidationErrors THEN "validation error"
    ELSE IF r = Conflict THEN "conflict"
    ELSE IF r = NotFound THEN "not-found"
    ELSE IF r \in StorageErrors THEN "storage error"
    ELSE "success"

\* the failures an operation can end with
Failures(op) ==
    IF op = "create" THEN ValidationErrors \cup {Conflict} \cup StorageErrors
    ELSE IF op = "update" THEN ValidationErrors \cup {Conflict, NotFound} \cup StorageErrors
    ELSE {NotFound} \cup StorageErrors

\* the status with which the endpoint of op answers outcome r
StatusOf(op, r) ==
    IF op = "create" THEN CreateStatus(r)
    ELSE IF op = "update" THEN UpdateStatus(r)
    ELSE ReadStatus(r)

\* C17: the status with which a failed Create, Get, Update, Cancel or Delete
\* is answered is not the status with which the same operation answers a
\* failure of another kind.
C17_KindsDistinguishable ==
    ( /\ call.pc = "done"
      /\ call.op \in {"create", "get", "update", "cancel", "delete"}
      /\ call.result # Ok )
    => \A r \in Failures(call.op) :
           Kind(r) # Kind(call.result) => StatusOf(call.op, r) # call.status

\* C18: a read, delete, cancel or update request for a booking id that is not
\* stored is answered with status 404.
C18_NotFoundIs404 ==
    ( /\ call.pc = "done"
      /\ call.op \in {"get", "delete", "cancel", "update"}
      /\ call.id \notin DOMAIN call.before )
    => call.status = 404

\* C19: a Create, Update, Cancel or Delete whose commit fails is answered with
\* an error status and leaves the table exactly as it was before the request.
C19_FailedCommitChangesNothing ==
    ( /\ call.pc = "done"
      /\ call.op \in {"create", "update", "cancel", "delete"}
      /\ call.result = CommitFailed )
    => /\ call.status \in {400, 500}
       /\ booking = call.before

\* the commit of a Cancel of an active booking has failed, and the booking is
\* still active with the end_time it had
C19_Witness ==
    /\ Answered("cancel") /\ call.result = CommitFailed
    /\ call.found.active
    /\ booking[call.id] = call.found
    /\ call.found.end_time # clock + Offset

\* C20: whatever the order of the check and commit steps of concurrent Create
\* and Update requests on one book, no active booking overlaps another active
\* booking of its book.
C20_NonOverlapConcurrent ==
    \A i \in DOMAIN booking :
        booking[i].active
        => ActiveOverlapping(booking, booking[i].book_id, booking[i].start_time,
                             booking[i].end_time, i) = {}

\* table t without its inactive bookings, booking id excepted
Visible(t, id) == [i \in { j \in DOMAIN t : t[j].active \/ j = id } |-> t[i]]

\* booking i has just been created with active = false
CreatedInactive(i) ==
    /\ Answered("create") /\ call.result = Ok /\ call.id = i
    /\ ~call.payload.active

\* booking i has just made a Create or an Update answer conflict, or a sweep
\* has just changed it
TakesPart(i) ==
    \/ /\ Answered("create") /\ call.result = Conflict
       /\ i \in ActiveOverlapping(call.before, call.payload.book_id,
                                  call.payload.start_time, call.payload.end_time, NoId)
    \/ /\ Answered("update") /\ call.result = Conflict
       /\ i \in ActiveOverlapping(call.before, call.before[call.id].book_id,
                                  call.payload.start_time, call.payload.end_time, call.id)
    \/ /\ Answered("sweep")
       /\ i \in DOMAIN call.before
       /\ i \in DOMAIN booking
       /\ booking[i] # call.before[i]

\* C22 (as claimed): a booking created with active = false never afterwards
\* makes a Create or an Update answer conflict and is never changed by a sweep.
C22_CreatedInactiveNeverTakesPart ==
    \A i \in Ids : [](CreatedInactive(i) => [](~TakesPart(i)))

\* C22 (amended): a Create with active = false stores an inactive booking; the
\* outcome of every Create and Update is the one it would have without the
\* inactive bookings in the table; a sweep changes no field of a booking that
\* is inactive.
C22_InactiveTakesNoPart ==
    /\ (Answered("create") /\ call.result = Ok /\ ~call.payload.active)
       => ~booking[call.id].active
    /\ Answered("create")
       => call.result = CreateOutcome(Visible(call.before, NoId), call.payload)
    /\ (Answered("update") /\ call.id \in DOMAIN call.before)
       => call.result = UpdateOutcome(Visible(call.before, call.id), call.id,
                                      call.before[call.id], call.payload)
    /\ Answered("sweep")
       => \A i \in DOMAIN call.before :
             ~call.before[i].active => (i \in DOMAIN booking /\ booking[i] = call.before[i])

\* a Create with active = false has stored an inactive booking over an
\* inactive booking of the same book with an overlapping interval
C22_Witness ==
    /\ Answered("create") /\ call.result = Ok
    /\ ~call.payload.active /\ ~booking[call.id].active
    /\ \E i \in DOMAIN call.before :
          /\ ~call.before[i].active
          /\ call.before[i].book_id = call.payload.book_id
          /\ Overlap(call.before[i].start_time, call.before[i].end_time,
                     call.payload.start_time, call.payload.end_time)

\* C23: the stored ids are those the sequence has handed out, each to one
\* booking; an Update, a Cancel, a Get and a sweep leave the set of stored ids
\* as it was; a successful Create adds exactly one id, the next of the
\* sequence, which no booking has or had; a successful Delete removes exactly
\* the id it was given; a request that fails changes no id.
C23_IdStability ==
    /\ \A i \in DOMAIN booking : i >= 1 /\ i < next_id
    /\ (call.pc = "done" /\ call.op \in {"update", "cancel", "get", "sweep"})
       => DOMAIN booking = DOMAIN call.before
    /\ Answered("create")
       => IF call.result = Ok
          THEN /\ call.id = next_id - 1
               /\ \A i \in DOMAIN call.before : i < call.id
               /\ DOMAIN booking = (DOMAIN call.before) \cup {call.id}
          ELSE DOMAIN booking = DOMAIN call.before
    /\ Answered("delete")
       => IF call.result = Ok
          THEN /\ call.id \in DOMAIN call.before
               /\ DOMAIN booking = (DOMAIN call.before) \ {call.id}
          ELSE DOMAIN booking = DOMAIN call.before

\* a Create has stored a booking under a new id although the id before it is
\* free again after a Delete
C23_Witness ==
    /\ Answered("create") /\ call.result = Ok
    /\ call.id > 1
    /\ (call.id - 1) \notin DOMAIN booking

\* C24: a sweep neither adds nor removes a booking, leaves book_id, user_id,
\* start_time and end_time of every booking as they were, never sets active to
\* true, and leaves a booking that was inactive exactly as it was.
C24_SweepChangesOnlyActive ==
    Answered("sweep")
    => /\ DOMAIN booking = DOMAIN call.before
       /\ \A i \in DOMAIN call.before :
             /\ booking[i].book_id = call.before[i].book_id
             /\ booking[i].user_id = call.before[i].user_id
             /\ booking[i].start_time = call.before[i].start_time
             /\ booking[i].end_time = call.before[i].end_time
             /\ booking[i].active => call.before[i].active

\* a sweep has deactivated a booking whose end_time differs from the reference
\* instant, beside an inactive booking that is expired as well
C24_Witness ==
    /\ Answered("sweep")
    /\ \E i, j \in DOMAIN booking :
          /\ call.before[i].active /\ ~booking[i].active
          /\ booking[i].end_time + 1 < clock + Offset
          /\ ~call.before[j].active
          /\ call.before[j].end_time < clock + Offset

\* the bookings of book b in table t, and booking id
OnBook(t, b, id) == [i \in { j \in DOMAIN t : t[j].book_id = b \/ j = id } |-> t[i]]

\* C27: the outcome of a Create on a book, and of an Update of a booking
\* stored on a book, is the outcome it has on the table reduced to the bookings
\* of that book; a Create and a Cancel leave the bookings of every other book
\* as they were.
C27_PartitionByResource ==
    /\ Answered("create")
       => /\ call.result = CreateOutcome(OnBook(call.before, call.payload.book_id, NoId),
                                         call.payload)
          /\ \A i \in DOMAIN call.before :
                call.before[i].book_id # call.payload.book_id
                => (i \in DOMAIN booking /\ booking[i] = call.before[i])
    /\ (Answered("update") /\ call.id \in DOMAIN call.before)
       => call.result = UpdateOutcome(OnBook(call.before, call.before[call.id].book_id,
                                             call.id),
                                      call.id, call.before[call.id], call.payload)
    /\ (Answered("cancel") /\ call.id \in DOMAIN call.before)
       => \A i \in DOMAIN call.before :
             call.before[i].book_id # call.before[call.id].book_id
             => (i \in DOMAIN booking /\ booking[i] = call.before[i])

\* a Create has succeeded on one book while an active booking of the other
\* book covers the same interval
C27_Witness ==
    /\ Answered("create") /\ call.result = Ok
    /\ \E i \in DOMAIN call.before :
          /\ call.before[i].active
          /\ call.before[i].book_id # call.payload.book_id
          /\ call.before[i].start_time = call.payload.start_time
          /\ call.before[i].end_time = call.payload.end_time
          /\ booking[i] = call.before[i]

C29_OverlapCheckIgnoresOwnFlag ==
    LET p == call.payload IN
    /\ ( /\ Answered("create") /\ Valid(p) /\ ~p.active
         /\ ActiveOverlapping(call.before, p.book_id, p.start_time, p.end_time,
                              NoId) # {} )
       => (call.result = Conflict /\ booking = call.before)
    /\ ( /\ Answered("update") /\ call.id \in DOMAIN call.before /\ Valid(p)
         /\ ~call.before[call.id].active
         /\ ~(p.active_set /\ p.active)
         /\ ActiveOverlapping(call.before, call.before[call.id].book_id,
                              p.start_time, p.end_time, call.id) # {} )
       => (call.result = Conflict /\ booking = call.before)

\* an Update that omits active was answered with conflict on an inactive
\* booking
C29_Witness ==
    /\ Answered("update") /\ call.result = Conflict
    /\ ~call.found.active
    /\ ~call.payload.active_set
    /\ booking = call.before

\* C25: a sweep whose commit fails leaves every booking as it was (none of the
\* bookings it selected is deactivated); a sweep whose commit succeeds leaves
\* every booking it selected inactive and changes nothing else, so the sweep
\* that runs after a failed one ends in the state that one successful sweep
\* reaches.
C25_SweepBatchAtomic ==
    Answered("sweep")
    => LET selected == { i \in DOMAIN call.before :
                           /\ call.before[i].active
                           /\ call.before[i].end_time < clock + Offset }
       IN  IF call.result = Ok
           THEN booking = [i \in DOMAIN call.before |->
                             IF i \in selected
                             THEN [call.before[i] EXCEPT !.active = FALSE]
                             ELSE call.before[i]]
           ELSE call.result = CommitFailed /\ booking = call.before

\* the commit of a sweep that had selected two bookings has failed and both
\* are still active
C25_Witness ==
    /\ Answered("sweep") /\ call.result = CommitFailed
    /\ \E i, j \in DOMAIN booking :
          /\ i # j
          /\ Expired(i) /\ Expired(j)

\* C26: after a sweep that ended in a storage error a later sweep runs and
\* commits, and a booking that is expired is eventually inactive, deleted or
\* given a later end_time, failed sweeps notwithstanding.
C26_SweepFailureIsolated ==
    /\ [](( Answered("sweep") /\ call.result = CommitFailed )
          => <>( Answered("sweep") /\ call.result = Ok ))
    /\ \A i \in Ids : Expired(i) ~> ~Expired(i)

\* a sweep has failed while a booking is expired, which is still active
C26_Witness ==
    /\ Answered("sweep") /\ call.result = CommitFailed
    /\ clock > 0
    /\ \E i \in DOMAIN booking : Expired(i) /\ booking[i].end_time >= Offset

\* C21: when the write of a sweep commits, every booking it deactivates has a
\* stored end_time earlier than the reference instant of the sweep.
C21_SweepRechecksExpiry ==
    [][ (call.pc = "selected" /\ call'.pc = "done")
        => \A i \in DOMAIN booking :
              (booking[i].active /\ ~booking'[i].active)
              => booking[i].end_time < clock + Offset ]_vars

\* a Cancel of booking i has committed and is answered
Cancelled_By(q, i) ==
    /\ req[q].pc = "done" /\ req[q].op = "cancel" /\ req[q].id = i

\* C30: when a sweep that selected a booking and a Cancel of that booking have
\* both committed, in either order, the booking is inactive and its end_time
\* is the one a Cancel wrote.
C30_CancelAndSweep ==
    \A i \in Ids :
        ( /\ call.pc = "done" /\ call.op = "sweep" /\ i \in DOMAIN call.before
          /\ \E q \in Procs : Cancelled_By(q, i) )
        => /\ ~booking[i].active
           /\ \E q \in Procs :
                 Cancelled_By(q, i) /\ booking[i].end_time = req[q].payload.end_time

\* a sweep and a Cancel that both loaded the same active booking have both
\* committed, and the booking has another end_time than the sweep loaded
C30_Witness ==
    \E i \in Ids, q \in Procs :
        /\ call.pc = "done" /\ call.op = "sweep" /\ i \in DOMAIN call.before
        /\ Cancelled_By(q, i)
        /\ req[q].found.active
        /\ booking[i].end_time # call.before[i].end_time

====
